---- MODULE Spec2Model ----
(***************************************************************************)
(* The embedding-indexed retrieval pipeline of quick-research-ai.          *)
(*                                                                         *)
(* redisClient.js (src/backend/lib/ingest.js:148-301): the vector index,   *)
(*   upsertVector / queryTopK / deleteVector over one Redis keyspace.      *)
(* query.js (src/backend/lib/sanityClient.js:71-155): queryKnowledge.      *)
(* sanityClient.js (src/backend/lib/sanityClient.js:1-69): the document    *)
(*   store, saveDocument / getDocument.                                    *)
(*                                                                         *)
(* Every async function is cut into one action per await: what runs        *)
(* between two awaits runs without interleaving (one JavaScript thread),   *)
(* what is awaited is answered by Redis or Sanity at some later step.      *)
(*                                                                         *)
(* Numbers.  Vectors are short sequences of small integers.  A similarity  *)
(* score c (a real in [-1,1]) is held exactly as the fraction n/d, in      *)
(* lowest terms with d > 0, whose value is sgn(c)*c^2: the map is          *)
(* one-to-one and order-preserving on [-1,1], so equal scores, ties and    *)
(* the order of scores are those of exact real arithmetic.                 *)
(***************************************************************************)
EXTENDS Integers, Sequences, FiniteSets, TLC

\* ------------------------------------------------------------------ bounds
MaxIds == 2
MaxWrites == 2
MaxK == 1

\* queryTopK(queryVector, k = 3)
DefaultK == 3

Ids == 1..MaxIds
Ks == 0..MaxK \cup { DefaultK }

\* ------------------------------------------------------------ value domains
\* JavaScript's undefined: a property that is absent from an object.
Undefined == << "undefined" >>

\* Embedding vectors the callers store: two lengths, two directions.
Vectors == { <<1, 0>>, <<-1, 1>>, <<1>> }
\* Query vectors: against the stored ones a positive and a negative score, a
\* zero vector (every score 0: ties), and the other length.
QueryVectors == { <<1, 0>>, <<0, 0>>, <<1>> }

\* upsertVector's metadata: the default {} (no property set), or what
\* ingestDocument passes, {title, source, snippet}.
DefaultMetadata == [title |-> Undefined, source |-> Undefined, snippet |-> Undefined]
\* Text is a sequence of characters; a fixed message is one symbol long.
Title == << "Q" >>
Snippet == << "Q", "c" >>
FullText == << "Q", "c", "s" >>
Metadatas ==
    { DefaultMetadata,
      [title |-> Title, source |-> << "pasted_text" >>, snippet |-> Snippet] }

\* ------------------------------------------------------------------ helpers
Min(a, b) == IF a < b THEN a ELSE b
Abs(x) == IF x < 0 THEN -x ELSE x

RECURSIVE Gcd(_, _)
Gcd(a, b) == IF b = 0 THEN a ELSE Gcd(b, a % b)

RECURSIVE SumTo(_, _)
\* f[1] + ... + f[n]
SumTo(f, n) == IF n = 0 THEN 0 ELSE f[n] + SumTo(f, n - 1)

\* The exact fraction standing for the real sgn(num)*|num|/den, den > 0.
Fraction(num, den) ==
    LET g == Gcd(Abs(num), den) IN << num \div g, den \div g >>

ScoreZero == << 0, 1 >>
ScoreLess(x, y) == x[1] * y[2] < y[1] * x[2]

\* The orders in which a set can be enumerated.
Orderings(S) ==
    { f \in [1..Cardinality(S) -> S] : \A i, j \in 1..Cardinality(S) : (f[i] = f[j]) => (i = j) }

\* -------------------------------------------------------------- redisClient
\* const key = `doc:${id}`
Key(id) == << "doc:", id >>
\* key.replace('doc:', '')
IdOfKey(key) == key[2]

\* JSON.stringify / JSON.parse of {vector, metadata, timestamp}: a string, not
\* the object; a property whose value is undefined is dropped, and reads back
\* as undefined.
JSONstringify(obj) == << "json", obj.vector, obj.metadata, obj.timestamp >>
JSONparse(data) == [vector |-> data[2], metadata |-> data[3], timestamp |-> data[4]]

\* Redis's nil: GET of a key that is not set.
Nil == << "nil" >>

\* What a function call ended in.
Returned(v) == [kind |-> "return", value |-> v]
Thrown(msg) == [kind |-> "throw", value |-> msg]
NoResult == [kind |-> "none", value |-> <<>>]

\* Undefined where an array of numbers is expected: an embedding the provider
\* did not give, the vector of a record stored without one (JSON.stringify
\* leaves an undefined property out).  No array of the model is empty, and
\* the empty tuple stands for it.
NoVector == << >>

\* cosineSimilarity without its length check: the sums run over vecA's indices
\* and a component vecB lacks counts as 0.
cosineSimilarityUnchecked(vecA, vecB) ==
    LET n == Len(vecA)
        b(i) == IF i <= Len(vecB) THEN vecB[i] ELSE 0
        dotProduct == SumTo([i \in 1..n |-> vecA[i] * b(i)], n)
        magA == SumTo([i \in 1..n |-> vecA[i] * vecA[i]], n)
        magB == SumTo([i \in 1..n |-> b(i) * b(i)], n)
    IN  [kind |-> "return",
         value |-> IF magA * magB = 0 THEN ScoreZero
                   ELSE Fraction((IF dotProduct < 0 THEN -1 ELSE 1) * dotProduct * dotProduct,
                                 magA * magB)]

\* cosineSimilarity dividing by a magnitude of zero: 0 / 0 is NaN.
cosineSimilarityDividing(vecA, vecB) ==
    LET n == Len(vecA)
        dotProduct == SumTo([i \in 1..n |-> vecA[i] * vecB[i]], n)
        magA == SumTo([i \in 1..n |-> vecA[i] * vecA[i]], n)
        magB == SumTo([i \in 1..n |-> vecB[i] * vecB[i]], n)
    IN  IF vecA = << >> \/ vecB = << >>
        THEN Thrown("Cannot read properties of undefined (reading 'length')")
        ELSE IF Len(vecA) # Len(vecB)
        THEN Thrown("Vectors must have same length")
        ELSE IF magA * magB = 0
             THEN Returned(<< "NaN" >>)
             ELSE Returned(Fraction((IF dotProduct < 0 THEN -1 ELSE 1) * dotProduct * dotProduct,
                                    magA * magB))

\* cosineSimilarity(vecA, vecB): reading the length of undefined is a
\* TypeError.
cosineSimilarity(vecA, vecB) ==
    LET n == Len(vecA)
        dotProduct == SumTo([i \in 1..n |-> vecA[i] * vecB[i]], n)
        magA == SumTo([i \in 1..n |-> vecA[i] * vecA[i]], n)
        magB == SumTo([i \in 1..n |-> vecB[i] * vecB[i]], n)
    IN  IF vecA = NoVector \/ vecB = NoVector
        THEN Thrown("Cannot read properties of undefined (reading 'length')")
        ELSE IF Len(vecA) # Len(vecB)
        THEN Thrown("Vectors must have same length")
        ELSE IF magA * magB = 0
             THEN Returned(ScoreZero)
             ELSE Returned(Fraction((IF dotProduct < 0 THEN -1 ELSE 1) * dotProduct * dotProduct,
                                    magA * magB))

\* A SET that keeps a value already there (SET ... NX).
RedisSetNX(db, key, value) == IF db[key] = Nil THEN [db EXCEPT ![key] = value] ELSE db

\* A SET that replaces the vector and the timestamp of a record and keeps
\* its metadata.
RedisSetVector(db, key, value) ==
    IF db[key] = Nil THEN [db EXCEPT ![key] = value]
    ELSE [db EXCEPT ![key] = << "json", value[2], db[key][3], value[4] >>]

\* A SET that unsets every other key.
RedisSetOnly(db, key, value) == [x \in DOMAIN db |-> IF x = key THEN value ELSE Nil]

\* client.set(key, value): the keyspace with the value of key replaced.
RedisSet(db, key, value) == [db EXCEPT ![key] = value]
\* A DEL that unsets every key.
RedisDelAll(db, key) == [x \in DOMAIN db |-> Nil]

\* client.del(key)
RedisDel(db, key) == [db EXCEPT ![key] = Nil]
\* A KEYS that replies one key only.
RedisKeysOne(db) ==
    IF \A key \in DOMAIN db : db[key] = Nil THEN { << >> }
    ELSE { << key >> : key \in { x \in DOMAIN db : db[x] # Nil } }

\* client.keys('doc:*'): the keys that are set, in an order Redis chooses (the
\* KEYS command promises none).
RedisKeys(db) == Orderings({ key \in DOMAIN db : db[key] # Nil })

\* similarities.sort((a, b) => b.score - a.score): Array.prototype.sort is
\* stable, so an element goes after every element that does not score less.
InsertDesc(sorted, x) ==
    SelectSeq(sorted, LAMBDA e : ~ScoreLess(e.score, x.score))
        \o << x >>
        \o SelectSeq(sorted, LAMBDA e : ScoreLess(e.score, x.score))

\* No sort: the hits in the order they were fetched.
Unsorted(s) == s

RECURSIVE SortDesc(_)
SortDesc(s) ==
    IF s = << >> THEN << >>
    ELSE InsertDesc(SortDesc(SubSeq(s, 1, Len(s) - 1)), s[Len(s)])

\* slice(1, k): the first element lost.
SliceFromOne(s, n) == SubSeq(s, 2, IF n < Len(s) THEN n ELSE Len(s))

\* similarities.slice(0, k), k >= 0
Slice(s, n) == SubSeq(s, 1, Min(n, Len(s)))

\* ------------------------------------------------------------------- state
VARIABLES
    docs,           \* the Sanity dataset: _id -> document, or NoDocument
    kpc,            \* queryKnowledge: "idle", "embed", "search", "docs", "generate", "done"
    question,       \* queryKnowledge's argument
    topK,           \* queryKnowledge's argument
    queryEmbedding, \* the embedding of the question
    similarDocs,    \* the hits of the search
    contexts,       \* the contexts built so far
    fetched,        \* history: how getDocument ended for each context
    kresult,        \* what queryKnowledge ended in
    calls,          \* history: the collaborator calls queryKnowledge has made
    ingests,        \* POST /api/ingest: request -> where its handler stands
    qreq,           \* POST /api/query: the q of the request being handled
    qres,           \* POST /api/query: the response sent
    pending,        \* the upsertVector calls whose SET is executed and that have not returned
    completed,      \* history: the upsertVector calls that have returned, in that order
    snapshots,      \* history: the keyspaces that existed since the search began
    call,           \* a function of the libraries called by itself: its arguments and result
    redisClient,    \* redisClient.js: the module's client, 0 for null
    clients,        \* the clients createClient has made: whether open, whether connected
    callers,        \* the calls of the index in flight: where each stands in getRedisClient
    store,          \* the Redis keyspace: key -> JSON string, or Nil
    now,            \* Date.now(): a clock that ticks at every upsert
    pc,             \* queryTopK: "idle", "scan" (awaiting a GET), "done"
    queryVector,    \* queryTopK's argument
    k,              \* queryTopK's argument
    keys,           \* the keys still to fetch
    similarities,   \* the hits computed so far
    result,         \* what queryTopK ended in
    dirty,          \* history: a write was committed since this search began
    written,        \* history: id -> the last completed upsert of id
    last            \* history: the last search that ended with no write since

knowledgeVars ==
    << docs, kpc, question, topK, queryEmbedding, similarDocs, contexts, fetched, kresult,
       calls >>

vars == << store, now, pc, queryVector, k, keys, similarities, result, dirty, written, last,
           docs, kpc, question, topK, queryEmbedding, similarDocs, contexts, fetched, kresult,
           calls, ingests, qreq, qres, pending, completed, snapshots, call,
           redisClient, clients, callers >>

\* The calls of upsertVector in flight: absent where a call is one step.
concurrentVars == << pending, completed, snapshots >>

\* The requests of the server: absent from the use of the libraries alone.
serverVars == << ingests, qreq, qres >>

searchVars == << pc, queryVector, k, keys, similarities, result, dirty >>

NoUpsert == [vector |-> << >>, metadata |-> DefaultMetadata, replaced |-> FALSE, present |-> FALSE]
NoSearch == [queryVector |-> << >>, k |-> 0, result |-> NoResult]
\* No document: what client.getDocument resolves to for an _id the dataset
\* lacks, undefined (reading a property of it throws a TypeError).
NoDocument ==
    [_id |-> 0, title |-> Undefined, contentSnippet |-> Undefined, fullText |-> Undefined,
     source |-> Undefined]

\* The requests the server handles at one time.
Requests == { "a", "b" }

\* A value that is not a string (typeof q !== 'string').
NotAString == << "object" >>
NoResponse == [status |-> 0, body |-> << >>]
\* res.status(400).json({ error }), res.status(500).json({ error })
Rejected(status, error) == [status |-> status, body |-> [error |-> error]]

\* The connection of the index: absent where the client is taken as connected.
connectionVars == << redisClient, clients, callers >>

\* The calls of the index that can be in flight together: each function,
\* called by each of two requests.
Callers ==
    { << op, r >> : op \in { "upsertVector", "queryTopK", "deleteVector" }, r \in Requests }

\* A call that is not in flight.
NoCaller == [pc |-> "idle", opened |-> 0, client |-> 0]

\* No function called by itself.
NoCall == [fn |-> "none", args |-> << >>, result |-> NoResult]

\* A handler of POST /api/ingest that has not been entered.
NoIngest ==
    [pc |-> "idle", request |-> [mimetype |-> "none", text |-> Undefined], text |-> << >>, source |-> << >>, title |-> << >>,
     contentSnippet |-> << >>, sanityDoc |-> NoDocument, embedding |-> << >>,
     result |-> NoResult, response |-> NoResponse, calls |-> << >>]

Init ==
    /\ store = [key \in { Key(id) : id \in Ids } |-> Nil]
    /\ now = 0
    /\ pc = "idle"
    /\ queryVector = << >>
    /\ k = 0
    /\ keys = << >>
    /\ similarities = << >>
    /\ result = NoResult
    /\ dirty = FALSE
    /\ written = [id \in Ids |-> NoUpsert]
    /\ last = NoSearch
    /\ docs = [id \in Ids |-> NoDocument]
    /\ kpc = "idle"
    /\ question = ""
    /\ topK = 0
    /\ queryEmbedding = << >>
    /\ similarDocs = << >>
    /\ contexts = << >>
    /\ fetched = << >>
    /\ kresult = NoResult
    /\ calls = << >>
    /\ ingests = [r \in Requests |-> NoIngest]
    /\ qreq = Undefined
    /\ qres = NoResponse
    /\ pending = << >>
    /\ completed = << >>
    /\ snapshots = { }
    /\ call = NoCall
    /\ redisClient = 0
    /\ clients = << >>
    /\ callers = [c \in Callers |-> NoCaller]

\* A write commits: the keyspace is no longer the one the search in flight
\* (or just ended) started from, and the next search repeats no earlier one.
NoteWrite ==
    /\ dirty' = (dirty \/ pc # "idle")
    /\ last' = NoSearch

\* client.set(key, value) of upsertVector(id, vector, metadata) is executed.
Stored(id, vector, metadata) ==
    /\ now < MaxWrites
    /\ LET key == Key(id)
           value == JSONstringify([vector |-> vector, metadata |-> metadata, timestamp |-> now])
       IN  store' = RedisSet(store, key, value)
    /\ now' = now + 1
    /\ written' = [written EXCEPT ![id] =
                     [vector |-> vector, metadata |-> metadata, present |-> TRUE,
                      replaced |-> /\ written[id].present
                                   /\ written[id].vector # vector
                                   /\ written[id].metadata # metadata]]
    /\ NoteWrite
    /\ UNCHANGED << pc, queryVector, k, keys, similarities, result >>

\* upsertVector(id, vector, metadata), called by another than ingestDocument.
upsertVector(id, vector, metadata) ==
    /\ Stored(id, vector, metadata)
    /\ UNCHANGED knowledgeVars
    /\ UNCHANGED serverVars
    /\ UNCHANGED concurrentVars
    /\ UNCHANGED call
    /\ UNCHANGED connectionVars

\* client.del(key) of deleteVector(id) is executed.
Deleted(id) ==
    /\ store' = RedisDel(store, Key(id))
    /\ written' = [written EXCEPT ![id] = NoUpsert]
    /\ NoteWrite
    /\ UNCHANGED << now, pc, queryVector, k, keys, similarities, result >>

\* deleteVector(id)
deleteVector(id) ==
    /\ Deleted(id)
    /\ UNCHANGED knowledgeVars
    /\ UNCHANGED serverVars
    /\ UNCHANGED concurrentVars
    /\ UNCHANGED call
    /\ UNCHANGED connectionVars

\* An empty index reported as an error.
NoVectorsThrown == [kind |-> "throw", value |-> "No vectors found in Redis"]

\* The value queryTopK returns when KEYS finds nothing.
NoVectorsFound == Returned(<< >>)

\* The hits, ranked and cut to k.
TopK(sims, n) == Slice(SortDesc(sims), n)

\* The entry of queryTopK(queryVector, k), up to the reply of
\* client.keys('doc:*').
Searching(qv, n) ==
    /\ pc = "idle"
    /\ kpc \in { "idle", "search" }
    /\ queryVector' = qv
    /\ k' = n
    /\ dirty' = FALSE
    /\ similarities' = << >>
    /\ \E ks \in RedisKeys(store) :
         IF Len(ks) = 0
         THEN /\ keys' = << >>
              /\ result' = NoVectorsFound
              /\ pc' = "done"
         ELSE /\ keys' = ks
              /\ result' = NoResult
              /\ pc' = "scan"
    /\ UNCHANGED << store, now, written, last >>

\* queryTopK(queryVector, k)
queryTopK(qv, n) ==
    /\ Searching(qv, n)
    /\ UNCHANGED knowledgeVars
    /\ UNCHANGED serverVars
    /\ UNCHANGED concurrentVars
    /\ UNCHANGED call
    /\ UNCHANGED connectionVars

\* One turn of the loop: the reply of client.get(key), and, after the last
\* key, the sort, the cut and the return.
scan ==
    /\ pc = "scan"
    /\ LET key == Head(keys)
           data == store[key]
           rest == Tail(keys)
           parsed == JSONparse(data)
           similarity == cosineSimilarity(queryVector, parsed.vector)
           sims == IF data = Nil
                   THEN similarities
                   ELSE Append(similarities,
                               [id |-> IdOfKey(key), score |-> similarity.value,
                                metadata |-> parsed.metadata])
       IN  IF data # Nil /\ similarity.kind = "throw"
           THEN /\ result' = Thrown(<< "Failed to query vectors: ", similarity.value >>)
                /\ pc' = "done"
                /\ keys' = << >>
                /\ similarities' = << >>
           ELSE /\ keys' = rest
                /\ IF rest = << >>
                   THEN /\ result' = Returned(TopK(sims, k))
                        /\ pc' = "done"
                        /\ similarities' = << >>
                   ELSE /\ similarities' = sims
                        /\ UNCHANGED << result, pc >>
    /\ UNCHANGED << store, now, queryVector, k, dirty, written, last >>
    /\ UNCHANGED knowledgeVars
    /\ UNCHANGED serverVars
    /\ UNCHANGED concurrentVars
    /\ UNCHANGED call
    /\ UNCHANGED connectionVars

\* The caller of the index takes the result.  remember: keep it in the history variable
\* last, for the next search to be compared with.
Taken(remember) ==
    /\ pc = "done"
    /\ kpc = "idle"
    /\ last' = IF dirty \/ ~remember THEN last
               ELSE [queryVector |-> queryVector, k |-> k, result |-> result]
    /\ pc' = "idle"
    /\ queryVector' = << >>
    /\ k' = 0
    /\ keys' = << >>
    /\ similarities' = << >>
    /\ result' = NoResult
    /\ dirty' = FALSE
    /\ UNCHANGED << store, now, written >>

return(remember) ==
    /\ Taken(remember)
    /\ UNCHANGED knowledgeVars
    /\ UNCHANGED serverVars
    /\ UNCHANGED concurrentVars
    /\ UNCHANGED call
    /\ UNCHANGED connectionVars

Next ==
    \/ \E id \in Ids, v \in Vectors, m \in Metadatas : upsertVector(id, v, m)
    \/ \E id \in Ids : deleteVector(id)
    \/ \E qv \in QueryVectors, n \in Ks : queryTopK(qv, n)
    \/ scan
    \/ return(FALSE)

Spec == Init /\ [][Next]_vars

\* The same operations, with every result remembered for the next search.
NextRepeat ==
    \/ \E id \in Ids, v \in Vectors, m \in Metadatas : upsertVector(id, v, m)
    \/ \E id \in Ids : deleteVector(id)
    \/ \E qv \in QueryVectors, n \in Ks : queryTopK(qv, n)
    \/ scan
    \/ return(TRUE)

RepeatSpec == Init /\ [][NextRepeat]_vars

\* --------------------------------------------------------- concurrent calls
\* Calls of upsertVector in flight together.  The client sends the commands
\* of all calls over its one connection and Redis executes them one at a
\* time in the order sent, so a call is cut in two steps: its SET is
\* executed, and its reply resumes the caller.
\* The records the callers store: no two of the same vector or of the same
\* metadata, so that a record made of two of them is none of them.
ConcurrentRecords ==
    { [vector |-> << 1, 0 >>, metadata |-> DefaultMetadata],
      [vector |-> << -1, 1 >>,
       metadata |-> [title |-> Title, source |-> << "pasted_text" >>, snippet |-> Snippet]] }
ConcurrentQueries == { << 1, 0 >> }

\* The replies of the connection in the reverse order.
Newest(queue) == Len(queue)

\* The reply that comes next: the replies of a connection come in the order
\* of its commands.
Oldest(queue) == 1

\* The keyspaces a search in flight has run over.
Seen(db) == IF pc = "scan" THEN snapshots \cup { db } ELSE snapshots

\* upsertVector(id, vector, metadata), up to the execution of its SET.
set(id, vector, metadata) ==
    /\ Stored(id, vector, metadata)
    /\ pending' = Append(pending,
                         [id |-> id, vector |-> vector, metadata |-> metadata, timestamp |-> now,
                          during |-> { pending[i].timestamp : i \in 1..Len(pending) }])
    /\ snapshots' = Seen(store')
    /\ UNCHANGED completed
    /\ UNCHANGED knowledgeVars
    /\ UNCHANGED serverVars
    /\ UNCHANGED call
    /\ UNCHANGED connectionVars

\* The reply of a SET: upsertVector returns { id, key } to its caller.
stored ==
    /\ pending # << >>
    /\ LET i == Oldest(pending) IN
       /\ completed' = Append(completed, pending[i])
       /\ pending' = SubSeq(pending, 1, i - 1) \o SubSeq(pending, i + 1, Len(pending))
    /\ UNCHANGED << store, now, written, last, snapshots >>
    /\ UNCHANGED searchVars
    /\ UNCHANGED knowledgeVars
    /\ UNCHANGED serverVars
    /\ UNCHANGED call
    /\ UNCHANGED connectionVars

\* deleteVector(id), among the calls in flight.
del(id) ==
    /\ Deleted(id)
    /\ snapshots' = Seen(store')
    /\ UNCHANGED << pending, completed >>
    /\ UNCHANGED knowledgeVars
    /\ UNCHANGED serverVars
    /\ UNCHANGED call
    /\ UNCHANGED connectionVars

\* queryTopK(queryVector, k), among the calls in flight.
search(qv, n) ==
    /\ Searching(qv, n)
    /\ snapshots' = { store }
    /\ UNCHANGED << pending, completed >>
    /\ UNCHANGED knowledgeVars
    /\ UNCHANGED serverVars
    /\ UNCHANGED call
    /\ UNCHANGED connectionVars

\* The caller of queryTopK takes the result.
taken ==
    /\ Taken(FALSE)
    /\ snapshots' = { }
    /\ UNCHANGED << pending, completed >>
    /\ UNCHANGED knowledgeVars
    /\ UNCHANGED serverVars
    /\ UNCHANGED call
    /\ UNCHANGED connectionVars

NextConcurrent ==
    \/ \E id \in Ids, rec \in ConcurrentRecords : set(id, rec.vector, rec.metadata)
    \/ stored
    \/ \E id \in Ids : del(id)
    \/ \E qv \in ConcurrentQueries : search(qv, DefaultK)
    \/ scan
    \/ taken

ConcurrentSpec == Init /\ [][NextConcurrent]_vars

\* --------------------------------------------------------- lightningClient
\* generateMockEmbedding(text): a unit vector of the mock's dimension (384 in
\* the code, 1 here), a function of the text alone.
generateMockEmbedding(text) == << 1 >>
\* What the embeddings API may answer: vectors of the API's dimension (2 here).
ApiEmbeddings == { << 1, 0 >>, << 0, 0 >> }

\* What a call of createEmbedding may meet: LIGHTNING_API_KEY is not set,
\* fetch rejects, the response is not ok, its body is no JSON, the JSON has no
\* data, data has no element, the element has no embedding, or it has one.
EmbeddingReplies ==
    { [kind |-> x, embedding |-> NoVector] :
        x \in { "no key", "fetch failed", "not ok", "not JSON", "no data", "no item",
                "no embedding" } }
        \cup { [kind |-> "embedding", embedding |-> e] : e \in ApiEmbeddings }

\* The try block of createEmbedding past the check of the key:
\* data.data[0].embedding, or the error thrown on the way to it.
EmbeddingRequested(reply) ==
    CASE reply.kind = "fetch failed" -> Thrown("fetch failed")
      [] reply.kind = "not ok" -> Thrown("Lightning API error")
      [] reply.kind = "not JSON" -> Thrown("Unexpected token in JSON")
      [] reply.kind = "no data" -> Thrown("Cannot read properties of undefined (reading '0')")
      [] reply.kind = "no item" ->
            Thrown("Cannot read properties of undefined (reading 'embedding')")
      [] OTHER -> Returned(reply.embedding)

\* createEmbedding(text) when the call meets reply: the mock's vector without
\* a key and in the catch block, and what the try block returns otherwise.
createEmbeddingFor(text, reply) ==
    IF reply.kind = "no key" \/ EmbeddingRequested(reply).kind = "throw"
    THEN Returned(generateMockEmbedding(text))
    ELSE EmbeddingRequested(reply)

\* createEmbedding(text): what it may return.
createEmbedding(text) == { createEmbeddingFor(text, reply).value : reply \in EmbeddingReplies }

\* generateMockAnswer(prompt): the template around the question of the prompt.
generateMockAnswer(prompt) == << "[MOCK ANSWER]", prompt.question >>

\* What a call of generateAnswer may meet: as for createEmbedding, on the way
\* to data.choices[0].message.content.
AnswerReplies ==
    { [kind |-> x, content |-> Undefined] :
        x \in { "no key", "fetch failed", "not ok", "not JSON", "no choices", "no choice",
                "no message", "no content" } }
        \cup { [kind |-> "content", content |-> << "answer" >>] }

\* The try block of generateAnswer past the check of the key.
AnswerRequested(reply) ==
    CASE reply.kind = "fetch failed" -> Thrown("fetch failed")
      [] reply.kind = "not ok" -> Thrown("Lightning API error")
      [] reply.kind = "not JSON" -> Thrown("Unexpected token in JSON")
      [] reply.kind = "no choices" -> Thrown("Cannot read properties of undefined (reading '0')")
      [] reply.kind = "no choice" ->
            Thrown("Cannot read properties of undefined (reading 'message')")
      [] reply.kind = "no message" ->
            Thrown("Cannot read properties of undefined (reading 'content')")
      [] OTHER -> Returned(reply.content)

\* generateAnswer(prompt) when the call meets reply.
generateAnswerFor(prompt, reply) ==
    IF reply.kind = "no key" \/ AnswerRequested(reply).kind = "throw"
    THEN Returned(generateMockAnswer(prompt))
    ELSE AnswerRequested(reply)

\* generateAnswer(prompt): what it may return.
generateAnswer(prompt) == { generateAnswerFor(prompt, reply).value : reply \in AnswerReplies }

\* ------------------------------------------------------------ sanityClient
\* The documents callers save: what ingestDocument saves.
Documents ==
    { [title |-> Title, contentSnippet |-> Snippet, fullText |-> FullText, source |-> << "pasted_text" >>] }

\* A value that is false in a condition: undefined, or the empty string.
Falsy(x) == x = Undefined \/ x = << >>
\* x || y
Or(x, y) == IF Falsy(x) THEN y ELSE x
\* s.substring(0, n)
Substring0(str, n) == SubSeq(str, 1, Min(n, Len(str)))

\* A create that stores nothing.
ClientCreateNothing(db, id, doc) == db

\* client.create(document): the dataset with the document under its _id.
ClientCreate(db, id, doc) ==
    [db EXCEPT ![id] =
       [_id |-> id,
        title |-> Or(doc.title, << "Untitled Document" >>),
        contentSnippet |-> doc.contentSnippet,
        fullText |-> doc.fullText,
        source |-> doc.source]]

\* An _id that may be the one of a document of the dataset.
AnyId(db, id) == TRUE

\* The _id client.create gives a new document: one no other document has.
FreshId(db, id) ==
    /\ db[id] = NoDocument
    /\ \A other \in Ids : (other < id) => (db[other] # NoDocument)

\* saveDocument(doc): client.create gives the document an _id no other has.
saveDocument(doc) ==
    /\ \E id \in Ids :
         /\ FreshId(docs, id)
         /\ docs' = ClientCreate(docs, id, doc)
    /\ UNCHANGED << store, now, written, last >>
    /\ UNCHANGED searchVars
    /\ UNCHANGED << kpc, question, topK, queryEmbedding, similarDocs, contexts, fetched, kresult,
                    calls >>
    /\ UNCHANGED serverVars
    /\ UNCHANGED concurrentVars
    /\ UNCHANGED call
    /\ UNCHANGED connectionVars

\* getDocument(docId): the document, undefined when the dataset has none of
\* that id, or an error when the fetch fails.
getDocument(docId) ==
    { Returned(docs[docId]),
      Thrown(<< "Failed to fetch document: ", "fetch failed" >>) }

\* ------------------------------------------------------------------- query
Questions == { "What is quantum computing?" }
\* queryKnowledge(question, topK = 3): the server passes no topK.
DefaultTopK == 3
TopKs == { 1, DefaultTopK }

\* fullText?.substring(0, 500)
ContextMax == 500

\* The placeholder text taken whatever the payload holds.
PlaceholderText(doc) == << "Content unavailable" >>

\* doc.metadata.snippet || 'Content unavailable'
FallbackText(doc) == Or(doc.metadata.snippet, << "Content unavailable" >>)

\* The context of a hit whose document could not be fetched.
FallbackContext(doc) ==
    [text |-> FallbackText(doc),
     score |-> doc.score,
     title |-> Or(doc.metadata.title, << "Untitled" >>)]

\* The context of a hit from its payload first.
FoundContextFromPayload(doc, fullDoc) ==
    [text |-> Or(doc.metadata.snippet, Or(fullDoc.contentSnippet, << "No content" >>)),
     score |-> doc.score,
     title |-> fullDoc.title]

\* The context of a hit from its document.
FoundContext(doc, fullDoc) ==
    [text |-> Or(fullDoc.contentSnippet,
                 Or(IF fullDoc.fullText = Undefined THEN Undefined
                    ELSE Substring0(fullDoc.fullText, ContextMax),
                    << "No content" >>)),
     score |-> doc.score,
     title |-> fullDoc.title]

\* The body of the loop for a hit, r being what getDocument ended in: reading
\* a property of no document throws, and the catch block takes the payload.
ContextOf(doc, r) ==
    IF r.kind = "return" /\ r.value # NoDocument
    THEN FoundContext(doc, r.value)
    ELSE FallbackContext(doc)

\* A loop that ends after any hit.
AnyHit(i, docList) == TRUE

\* for (const doc of similarDocs): the loop ends after hit i when it is the
\* last.
LastHit(i, docList) == i = Len(docList)

\* contexts.unshift(ctx): the new context put first.
Unshift(ctxs, ctx) == << ctx >> \o ctxs

\* contexts.push(ctx)
Push(ctxs, ctx) == Append(ctxs, ctx)

\* The prompt: the contexts labelled in order, then the question.
Prompt(ctxs, q) ==
    [contextText |-> [i \in 1..Len(ctxs) |->
                        << "Context", i, "relevance", ctxs[i].score, ctxs[i].text >>],
     question |-> q]

\* No answer at all for a search that finds nothing.
NoAnswer == [answer |-> << >>, contexts |-> << >>]

\* The answer when the search finds nothing.
NoDocuments ==
    [answer |-> << "No relevant documents found. Please ingest some documents first." >>,
     contexts |-> << >>]

\* The entry of queryKnowledge(question, topK), up to the call of
\* createEmbedding.
Entered(q, n) ==
    /\ kpc = "idle"
    /\ pc = "idle"
    /\ kpc' = "embed"
    /\ question' = q
    /\ topK' = n
    /\ calls' = << "createEmbedding" >>
    /\ UNCHANGED << store, now, written, last >>
    /\ UNCHANGED searchVars
    /\ UNCHANGED << docs, queryEmbedding, similarDocs, contexts, fetched, kresult >>

\* queryKnowledge(question, topK), called by another than the server.
queryKnowledge(q, n) ==
    /\ Entered(q, n)
    /\ UNCHANGED serverVars
    /\ UNCHANGED concurrentVars
    /\ UNCHANGED call
    /\ UNCHANGED connectionVars

\* createEmbedding answers; queryTopK(queryEmbedding, topK) is called.
embedded ==
    /\ kpc = "embed"
    /\ \E e \in createEmbedding(question) : queryEmbedding' = e
    /\ kpc' = "search"
    /\ calls' = Append(calls, "queryTopK")
    /\ UNCHANGED << store, now, written, last >>
    /\ UNCHANGED searchVars
    /\ UNCHANGED << docs, question, topK, similarDocs, contexts, fetched, kresult >>
    /\ UNCHANGED serverVars
    /\ UNCHANGED concurrentVars
    /\ UNCHANGED call
    /\ UNCHANGED connectionVars

\* queryTopK ends: its error is rethrown, no hit ends the query with the fixed
\* answer, and otherwise the first getDocument is called.
searched ==
    /\ kpc = "search"
    /\ pc = "done"
    /\ IF result.kind = "throw"
       THEN /\ kresult' = Thrown(<< "Failed to process query: ", result.value >>)
            /\ kpc' = "done"
            /\ similarDocs' = << >>
            /\ calls' = calls
       ELSE IF Len(result.value) = 0
            THEN /\ kresult' = Returned(NoDocuments)
                 /\ kpc' = "done"
                 /\ similarDocs' = << >>
                 /\ calls' = calls
            ELSE /\ similarDocs' = result.value
                 /\ kpc' = "docs"
                 /\ kresult' = NoResult
                 /\ calls' = Append(calls, "getDocument")
    /\ pc' = "idle"
    /\ queryVector' = << >>
    /\ k' = 0
    /\ keys' = << >>
    /\ similarities' = << >>
    /\ result' = NoResult
    /\ dirty' = FALSE
    /\ UNCHANGED << store, now, written, last >>
    /\ UNCHANGED << docs, question, topK, queryEmbedding, contexts, fetched >>
    /\ UNCHANGED serverVars
    /\ UNCHANGED concurrentVars
    /\ UNCHANGED call
    /\ UNCHANGED connectionVars

\* getDocument answers for the next hit: its context is pushed, and after the
\* last hit the prompt is built and generateAnswer is called.
fetchedDocument ==
    /\ kpc = "docs"
    /\ LET doc == similarDocs[Len(contexts) + 1] IN
       \E r \in getDocument(doc.id) :
         LET found == r.kind = "return" /\ r.value # NoDocument IN
         /\ contexts' = Push(contexts, ContextOf(doc, r))
         /\ fetched' = Append(fetched, IF found THEN "found" ELSE "failed")
    /\ kpc' = IF LastHit(Len(contexts) + 1, similarDocs) THEN "generate" ELSE "docs"
    /\ calls' = Append(calls, IF LastHit(Len(contexts) + 1, similarDocs) THEN "generateAnswer"
                                ELSE "getDocument")
    /\ UNCHANGED << store, now, written, last >>
    /\ UNCHANGED searchVars
    /\ UNCHANGED << docs, question, topK, queryEmbedding, similarDocs, kresult >>
    /\ UNCHANGED serverVars
    /\ UNCHANGED concurrentVars
    /\ UNCHANGED call
    /\ UNCHANGED connectionVars

\* generateAnswer answers: the answer, and the contexts as {text, score}.
generated ==
    /\ kpc = "generate"
    /\ \E a \in generateAnswer(Prompt(contexts, question)) :
         kresult' = Returned([answer |-> a,
                              contexts |-> [i \in 1..Len(contexts) |->
                                              [text |-> contexts[i].text,
                                               score |-> contexts[i].score]]])
    /\ kpc' = "done"
    /\ UNCHANGED << store, now, written, last >>
    /\ UNCHANGED searchVars
    /\ UNCHANGED << docs, question, topK, queryEmbedding, similarDocs, contexts, fetched, calls >>
    /\ UNCHANGED serverVars
    /\ UNCHANGED concurrentVars
    /\ UNCHANGED call
    /\ UNCHANGED connectionVars

\* res.json({ answer, contexts }), or the 500 of the catch block.
QueryResponse(r) ==
    IF r.kind = "throw"
    THEN Rejected(500, r.value)
    ELSE [status |-> 200, body |-> [answer |-> r.value.answer, contexts |-> r.value.contexts]]

\* The caller of queryKnowledge takes the result: the handler of POST
\* /api/query, when a request is being handled, responds with it.
answered ==
    /\ kpc = "done"
    /\ kpc' = "idle"
    /\ question' = ""
    /\ topK' = 0
    /\ queryEmbedding' = << >>
    /\ similarDocs' = << >>
    /\ contexts' = << >>
    /\ fetched' = << >>
    /\ kresult' = NoResult
    /\ calls' = << >>
    /\ qres' = IF qreq = Undefined THEN qres ELSE QueryResponse(kresult)
    /\ UNCHANGED << ingests, qreq >>
    /\ UNCHANGED concurrentVars
    /\ UNCHANGED << store, now, written, last >>
    /\ UNCHANGED searchVars
    /\ UNCHANGED docs
    /\ UNCHANGED call
    /\ UNCHANGED connectionVars

\* The query pipeline over an index and a dataset that callers fill.
NextQuery ==
    \/ \E doc \in Documents : saveDocument(doc)
    \/ \E id \in Ids, v \in Vectors, m \in Metadatas : upsertVector(id, v, m)
    \/ \E q \in Questions, n \in TopKs : queryKnowledge(q, n)
    \/ embedded
    \/ (kpc = "search" /\ queryTopK(queryEmbedding, topK))
    \/ scan
    \/ searched
    \/ fetchedDocument
    \/ generated
    \/ answered

QuerySpec == Init /\ [][NextQuery]_vars

\* ------------------------------------------------------------------ ingest
\* White space, as String.prototype.trim strips it.
IsSpace(c) == c \in { " ", "\n", "\t" }

RECURSIVE TrimStart(_)
TrimStart(str) ==
    IF str # << >> /\ IsSpace(Head(str)) THEN TrimStart(Tail(str)) ELSE str

RECURSIVE TrimEnd(_)
TrimEnd(str) ==
    IF str # << >> /\ IsSpace(str[Len(str)])
    THEN TrimEnd(SubSeq(str, 1, Len(str) - 1))
    ELSE str

\* The text as it is, white space kept.
NoTrim(str) == str

\* str.trim()
Trim(str) == TrimEnd(TrimStart(str))

RECURSIVE FirstLine(_)
\* text.split('\n')[0]
FirstLine(str) ==
    IF str = << >> \/ Head(str) = "\n" THEN << >>
    ELSE << Head(str) >> \o FirstLine(Tail(str))

\* substring(0, 100), substring(0, 200)
TitleMax == 100
SnippetMax == 200

\* The title without the cut.
TitleOfWholeLine(text) == Or(FirstLine(text), << "Untitled" >>)

\* const title = text.split('\n')[0].substring(0, 100) || 'Untitled'
TitleOf(text) == Or(Substring0(FirstLine(text), TitleMax), << "Untitled" >>)
\* const contentSnippet = text.substring(0, 200) + (text.length > 200 ? '...' : '')
SnippetOf(text) ==
    Substring0(text, SnippetMax) \o (IF Len(text) > SnippetMax THEN << ".", ".", "." >> ELSE << >>)

\* The texts clients send: empty, white space only, two lines, and a text
\* whose first line is empty.
Texts == { << >>, << " ", "\n" >>, << "Q", "\n", "c" >>, << "\n", "s" >> }

\* The requests of POST /api/ingest: a pasted text (req.body.text, of any
\* type, or absent), or an uploaded file of some type with the text in it.
IngestRequests ==
    { [mimetype |-> "none", text |-> t] : t \in Texts \cup { Undefined, NotAString } }
        \cup { [mimetype |-> "text/plain", text |-> << >>],
               [mimetype |-> "application/pdf", text |-> << " ", "\n" >>],
               [mimetype |-> "image/png", text |-> << >>] }

\* The metadata without the source.
IngestMetadataNoSource(title, source, contentSnippet) ==
    [title |-> title, source |-> Undefined, snippet |-> contentSnippet]

\* { title, source, snippet: contentSnippet }
IngestMetadata(title, source, contentSnippet) ==
    [title |-> title, source |-> source, snippet |-> contentSnippet]

\* The error without its cause.
IngestFailedNoCause(error) == Thrown(<< "Failed to ingest document" >>)

\* throw new Error(`Failed to ingest document: ${error.message}`)
IngestFailed(error) == Thrown(<< "Failed to ingest document: " >> \o error.value)

\* The handler has responded.
Responded(ingest, response) == [ingest EXCEPT !.pc = "responded", !.response = response]

\* What the actions of the handlers of POST /api/ingest leave alone.
NoQuery ==
    UNCHANGED << kpc, question, topK, queryEmbedding, similarDocs, contexts, fetched, kresult,
                 calls, qreq, qres, pending, completed, snapshots >>

\* POST /api/ingest, up to the call of saveDocument by ingestDocument.
postIngest(r, req) ==
    /\ ingests[r].pc = "idle"
    /\ LET hasFile == req.mimetype # "none"
           text == req.text
           source == IF hasFile THEN << "originalname" >> ELSE << "pasted_text" >>
           entry == [NoIngest EXCEPT !.request = req]
       IN  ingests' = [ingests EXCEPT ![r] =
             IF hasFile /\ req.mimetype \notin { "application/pdf", "text/plain" }
             THEN Responded(entry, Rejected(400, << "Unsupported file type. Use PDF or TXT." >>))
             ELSE IF ~hasFile /\ Falsy(text)
             THEN Responded(entry, Rejected(400, << "No file or text provided" >>))
             ELSE IF text = NotAString
             THEN Responded(entry, Rejected(500, << "text.trim is not a function" >>))
             ELSE IF Trim(text) = << >>
             THEN Responded(entry, Rejected(400, << "Empty content" >>))
             ELSE [entry EXCEPT !.pc = "save", !.text = text, !.source = source,
                                !.title = TitleOf(text),
                                !.contentSnippet = SnippetOf(text),
                                !.calls = << "saveDocument" >>]]
    /\ UNCHANGED << store, now, written, last, docs >>
    /\ UNCHANGED searchVars
    /\ NoQuery
    /\ UNCHANGED call
    /\ UNCHANGED connectionVars

\* saveDocument answers: the document is created and createEmbedding called,
\* or client.create fails and the pipeline ends.
saved(r) ==
    /\ ingests[r].pc = "save"
    /\ LET ingest == ingests[r]
           doc == [title |-> ingest.title, contentSnippet |-> ingest.contentSnippet,
                   fullText |-> ingest.text, source |-> ingest.source]
           error == IngestFailed(Thrown(<< "Failed to save document to Sanity: ", "create failed" >>))
       IN  \/ \E id \in Ids :
                /\ FreshId(docs, id)
                /\ docs' = ClientCreate(docs, id, doc)
                /\ ingests' = [ingests EXCEPT ![r] =
                      [ingest EXCEPT !.pc = "embed",
                                     !.sanityDoc = ClientCreate(docs, id, doc)[id],
                                     !.calls = Append(ingest.calls, "createEmbedding")]]
           \/ /\ docs' = docs
              /\ ingests' = [ingests EXCEPT ![r] =
                    Responded([ingest EXCEPT !.result = error], Rejected(500, error.value))]
    /\ UNCHANGED << store, now, written, last >>
    /\ UNCHANGED searchVars
    /\ NoQuery
    /\ UNCHANGED call
    /\ UNCHANGED connectionVars

\* createEmbedding answers; upsertVector is called.
ingestEmbedded(r) ==
    /\ ingests[r].pc = "embed"
    /\ \E e \in createEmbedding(ingests[r].text) :
         ingests' = [ingests EXCEPT ![r] =
            [ingests[r] EXCEPT !.pc = "upsert", !.embedding = e,
                               !.calls = Append(ingests[r].calls, "upsertVector")]]
    /\ UNCHANGED << store, now, written, last, docs >>
    /\ UNCHANGED searchVars
    /\ NoQuery
    /\ UNCHANGED call
    /\ UNCHANGED connectionVars

\* upsertVector answers: the record is stored and the handler responds with
\* the two ids, or the SET is refused and the pipeline ends.
upserted(r) ==
    /\ ingests[r].pc = "upsert"
    /\ LET ingest == ingests[r]
           id == ingest.sanityDoc._id
           redisResult == [id |-> id, key |-> Key(id)]
           value == [sanityId |-> ingest.sanityDoc._id, redisId |-> redisResult.id,
                     title |-> ingest.title]
           error == IngestFailed(Thrown(<< "Failed to store vector: ", "set failed" >>))
       IN  \/ /\ Stored(id, ingest.embedding,
                        IngestMetadata(ingest.title, ingest.source, ingest.contentSnippet))
              /\ ingests' = [ingests EXCEPT ![r] =
                    Responded([ingest EXCEPT !.result = Returned(value)],
                              [status |-> 200,
                               body |-> [status |-> "ingest_success",
                                         sanityId |-> value.sanityId,
                                         redisId |-> value.redisId]])]
           \/ /\ UNCHANGED << store, now, written, last >>
              /\ UNCHANGED searchVars
              /\ ingests' = [ingests EXCEPT ![r] =
                    Responded([ingest EXCEPT !.result = error], Rejected(500, error.value))]
    /\ UNCHANGED docs
    /\ NoQuery
    /\ UNCHANGED call
    /\ UNCHANGED connectionVars

\* The caller stops the pipeline while it awaits saveDocument or
\* createEmbedding: nothing of it runs any more.
abandoned(r) ==
    /\ ingests[r].pc \in { "save", "embed" }
    /\ ingests' = [ingests EXCEPT ![r].pc = "abandoned"]
    /\ UNCHANGED << store, now, written, last, docs >>
    /\ UNCHANGED searchVars
    /\ NoQuery
    /\ UNCHANGED call
    /\ UNCHANGED connectionVars

\* The request is over: its handler can be entered again.
closed(r) ==
    /\ ingests[r].pc \in { "responded", "abandoned" }
    /\ ingests' = [ingests EXCEPT ![r] = NoIngest]
    /\ UNCHANGED << store, now, written, last, docs >>
    /\ UNCHANGED searchVars
    /\ NoQuery
    /\ UNCHANGED call
    /\ UNCHANGED connectionVars

\* ------------------------------------------------------------------ server
\* The q of the requests of POST /api/query: absent, not a string, empty,
\* white space only, and a question with white space around it.
QueryBodies == { Undefined, NotAString, << >>, << " ", "\t" >>, << " ", "Q", " " >> }

\* The guard without the trim.
InvalidUntrimmed(q) == Falsy(q) \/ q = NotAString

\* !q || typeof q !== 'string' || !q.trim()
Invalid(q) == Falsy(q) \/ q = NotAString \/ Trim(q) = << >>

\* POST /api/query, up to the call of createEmbedding by queryKnowledge.
postQuery(q) ==
    /\ kpc = "idle"
    /\ pc = "idle"
    /\ qreq' = q
    /\ IF Invalid(q)
       THEN /\ qres' = Rejected(400, << "Query parameter \"q\" is required" >>)
            /\ UNCHANGED << store, now, written, last >>
            /\ UNCHANGED searchVars
            /\ UNCHANGED << docs, kpc, question, topK, queryEmbedding, similarDocs, contexts,
                            fetched, kresult, calls >>
       ELSE /\ qres' = NoResponse
            /\ Entered(Trim(q), DefaultTopK)
    /\ UNCHANGED ingests
    /\ UNCHANGED concurrentVars
    /\ UNCHANGED call
    /\ UNCHANGED connectionVars

\* POST /api/ingest: requests handled at the same time.
NextIngest ==
    \/ \E r \in Requests, req \in IngestRequests : postIngest(r, req)
    \/ \E r \in Requests : saved(r)
    \/ \E r \in Requests : ingestEmbedded(r)
    \/ \E r \in Requests : upserted(r)
    \/ \E r \in Requests : abandoned(r)
    \/ \E r \in Requests : closed(r)

IngestSpec == Init /\ [][NextIngest]_vars

\* The server: its two routes over the index and the dataset, an ingest
\* request and a query request handled at the same time.
NextServer ==
    \/ \E req \in IngestRequests : postIngest("a", req)
    \/ saved("a")
    \/ ingestEmbedded("a")
    \/ upserted("a")
    \/ closed("a")
    \/ \E q \in QueryBodies : postQuery(q)
    \/ embedded
    \/ (kpc = "search" /\ queryTopK(queryEmbedding, topK))
    \/ scan
    \/ searched
    \/ fetchedDocument
    \/ generated
    \/ answered

ServerSpec == Init /\ [][NextServer]_vars

\* --------------------------------------------------------------- connection
\* createClient(...): a client that is not open.
NewClient == [isOpen |-> FALSE, isReady |-> FALSE]

\* A connect() that leaves isOpen false until the socket is connected.
ConnectLater(client) == client

\* client.connect() is called: node-redis marks the socket open before it
\* awaits the connection, so isOpen is true from the call on.
Connect(client) == [client EXCEPT !.isOpen = TRUE]

\* The socket is connected: the client is ready, and connect() resolves.
Connected(client) == [client EXCEPT !.isOpen = TRUE, !.isReady = TRUE]

\* What the actions of the connection leave alone.
NoIndex ==
    /\ UNCHANGED << store, now, written, last >>
    /\ UNCHANGED searchVars
    /\ UNCHANGED knowledgeVars
    /\ UNCHANGED serverVars
    /\ UNCHANGED concurrentVars
    /\ UNCHANGED call

\* A call of upsertVector, queryTopK or deleteVector begins: getRedisClient()
\* up to its await.  An open client is returned at once and the command of
\* the call is sent on it (queued until the client is ready); otherwise a
\* client is created, assigned to redisClient, and its connect() awaited.
getRedisClient(c) ==
    /\ callers[c].pc = "idle"
    /\ IF redisClient # 0 /\ clients[redisClient].isOpen
       THEN /\ callers' = [callers EXCEPT ![c] =
                            [pc |-> "command", opened |-> 0, client |-> redisClient]]
            /\ UNCHANGED << redisClient, clients >>
       ELSE /\ clients' = Append(clients, Connect(NewClient))
            /\ redisClient' = Len(clients) + 1
            /\ callers' = [callers EXCEPT ![c] =
                            [pc |-> "connect", opened |-> Len(clients) + 1, client |-> 0]]
    /\ NoIndex

\* The socket of a client is connected.
ready(n) ==
    /\ ~clients[n].isReady
    /\ clients' = [clients EXCEPT ![n] = Connected(clients[n])]
    /\ UNCHANGED << redisClient, callers >>
    /\ NoIndex

\* connect() resolves for the call that awaited it: getRedisClient returns
\* redisClient, and the command of the call is sent on it.
connected(c) ==
    /\ callers[c].pc = "connect"
    /\ clients[callers[c].opened].isReady
    /\ callers' = [callers EXCEPT ![c] =
                     [pc |-> "command", opened |-> callers[c].opened, client |-> redisClient]]
    /\ UNCHANGED << redisClient, clients >>
    /\ NoIndex

\* The command of a call is replied to, and the call returns.
replied(c) ==
    /\ callers[c].pc = "command"
    /\ clients[callers[c].client].isReady
    /\ callers' = [callers EXCEPT ![c] = NoCaller]
    /\ UNCHANGED << redisClient, clients >>
    /\ NoIndex

NextConnection ==
    \/ \E c \in Callers : getRedisClient(c)
    \/ \E n \in 1..Len(clients) : ready(n)
    \/ \E c \in Callers : connected(c)
    \/ \E c \in Callers : replied(c)

ConnectionSpec == Init /\ [][NextConnection]_vars

\* ----------------------------------------------- functions called alone
\* The functions of the libraries, each called by itself on arguments of its
\* domain: what is called, on what, and what it ends in.
LongText(n) == [i \in 1..n |-> "x"]

\* The vectors cosineSimilarity is called on: of one or two components, of
\* magnitude zero or not.
CosineVectors == Vectors \cup QueryVectors \cup { << 0 >> }

\* The texts a title is made of: those of the requests, a first line longer
\* than the title may be, alone and followed by a second line.
TitleTexts ==
    Texts \cup { LongText(TitleMax + 1), LongText(TitleMax + 1) \o << "\n", "s" >> }

\* The hits whose context is built: the payload has a snippet, an empty one
\* or none.
ContextHits ==
    { [id |-> 1, score |-> ScoreZero,
       metadata |-> [title |-> Title, source |-> Undefined, snippet |-> t]] :
        t \in { Undefined, << >>, Snippet } }

\* What getDocument may end in for a hit: a document whose snippet is absent,
\* empty or not, and whose full text is absent, empty, short or longer than a
\* context may be; no document; an error.
ContextDocuments ==
    { Returned([_id |-> 1, title |-> Title, contentSnippet |-> c, fullText |-> f,
                source |-> Undefined]) :
        c \in { Undefined, << >>, << "c" >> },
        f \in { Undefined, << >>, << "f" >>, LongText(ContextMax + 1) } }
        \cup getDocument(1)

\* The prompts generateAnswer is called on.
Prompts ==
    { Prompt(ctxs, q) :
        ctxs \in { << >>, << [text |-> Snippet, score |-> ScoreZero, title |-> Title] >> },
        q \in Questions }

\* fn is called on the arguments args, in the order of its parameters, and
\* ends in res.
Called(fn, args, res) ==
    /\ call' = [fn |-> fn, args |-> args, result |-> res]
    /\ UNCHANGED << store, now, written, last >>
    /\ UNCHANGED searchVars
    /\ UNCHANGED knowledgeVars
    /\ UNCHANGED serverVars
    /\ UNCHANGED concurrentVars
    /\ UNCHANGED connectionVars

similarity(vecA, vecB) ==
    Called("cosineSimilarity", << vecA, vecB >>, cosineSimilarity(vecA, vecB))

title(text) == Called("title", << text >>, Returned(TitleOf(text)))

context(doc, r) == Called("context", << doc, r >>, Returned(ContextOf(doc, r)))

embedding(text, reply) ==
    Called("createEmbedding", << text, reply >>, createEmbeddingFor(text, reply))

answer(prompt, reply) ==
    Called("generateAnswer", << prompt, reply >>, generateAnswerFor(prompt, reply))

NextCall ==
    \/ \E vecA \in CosineVectors, vecB \in CosineVectors : similarity(vecA, vecB)
    \/ \E text \in TitleTexts : title(text)
    \/ \E doc \in ContextHits, r \in ContextDocuments : context(doc, r)
    \/ \E text \in Texts, reply \in EmbeddingReplies : embedding(text, reply)
    \/ \E prompt \in Prompts, reply \in AnswerReplies : answer(prompt, reply)

CallSpec == Init /\ [][NextCall]_vars

\* ------------------------------------------------------------ vector index
Present(id) == store[Key(id)] # Nil
Record(id) == JSONparse(store[Key(id)])
PresentIds == { id \in Ids : Present(id) }
\* The similarity of the stored record of id to the query of the search.
TrueScore(id) == cosineSimilarity(queryVector, Record(id).vector).value
\* A search has ended, and no write was committed since it began: the
\* keyspace is the one it ran over.
Clean == pc = "done" /\ ~dirty
hits == result.value
HitIds == { hits[i].id : i \in 1..Len(hits) }
Mismatched == { id \in PresentIds : Len(Record(id).vector) # Len(queryVector) }

\* C1. Overwrite law: the index holds, for every id, exactly the vector and
\* the payload of the last completed upsert of that id (and nothing for an id
\* never upserted or deleted since), and a search that runs after it returns
\* at most one hit per id, scored against that vector and carrying that
\* payload.
C1_OverwriteLaw ==
    /\ \A id \in Ids :
         IF written[id].present
         THEN /\ Present(id)
              /\ Record(id).vector = written[id].vector
              /\ Record(id).metadata = written[id].metadata
         ELSE ~Present(id)
    /\ (Clean /\ result.kind = "return") =>
         /\ \A i, j \in 1..Len(hits) : (hits[i].id = hits[j].id) => (i = j)
         /\ \A i \in 1..Len(hits) :
              /\ written[hits[i].id].present
              /\ hits[i].score = cosineSimilarity(queryVector, written[hits[i].id].vector).value
              /\ hits[i].metadata = written[hits[i].id].metadata

\* A search returned a hit for an id whose record replaced an earlier one of
\* another vector and another payload.
C1_Witness ==
    /\ Clean
    /\ result.kind = "return"
    /\ \E i \in 1..Len(hits) : written[hits[i].id].replaced

\* C2. Dimension guard on upsert: in every reachable state all stored
\* vectors have the same length.
C2_SameDimension ==
    \A a, b \in PresentIds : Len(Record(a).vector) = Len(Record(b).vector)

\* A step of queryTopK: its own variables change.
SearchStep ==
    << pc, queryVector, k, keys, similarities, result >>' #
        << pc, queryVector, k, keys, similarities, result >>

\* C3. Dimension guard on search: no step of queryTopK changes the stored
\* records, and a search that ran, with no write meanwhile, over an index
\* holding a vector of another length than the query's ends in an error.
C3_SearchDimensionGuard ==
    [][ /\ SearchStep => (store' = store)
        /\ (pc # "done" /\ pc' = "done" /\ ~dirty' /\ Mismatched' # {})
              => (result'.kind = "throw")
      ]_vars

\* A search of a non-empty index ended in the length error.
C3_Witness ==
    /\ Clean
    /\ Mismatched # {}
    /\ result = Thrown(<< "Failed to query vectors: ", "Vectors must have same length" >>)

\* C4. Empty-index query: a search of an index with no record returns the
\* empty sequence, whatever the query vector and k.
C4_EmptyIndex ==
    (Clean /\ PresentIds = {}) => (result = Returned(<< >>))

\* A search of the empty index ended, with a query of length 1 and k = 3.
C4_Witness ==
    /\ Clean
    /\ PresentIds = {}
    /\ queryVector = << 1 >>
    /\ k = DefaultK
    /\ result.kind = "return"

\* C5. Ranking: the hits are in non-increasing score order, and of two
\* returned records the one whose stored vector is strictly more similar to
\* the query comes strictly earlier.
C5_Ranking ==
    (pc = "done" /\ result.kind = "return") =>
        /\ \A i, j \in 1..Len(hits) :
              (i < j) => ~ScoreLess(hits[i].score, hits[j].score)
        /\ ~dirty =>
              \A i, j \in 1..Len(hits) :
                  ScoreLess(TrueScore(hits[j].id), TrueScore(hits[i].id)) => (i < j)

\* Two hits of different scores were returned.
C5_Witness ==
    /\ Clean
    /\ result.kind = "return"
    /\ Len(hits) >= 2
    /\ ScoreLess(hits[2].score, hits[1].score)

\* C6. Top-K: a search that returns, with no write meanwhile, returns
\* min(k, N) hits of the N stored records, and no record left out scores
\* higher than a returned one.
C6_TopK ==
    (Clean /\ result.kind = "return") =>
        /\ Len(hits) = Min(k, Cardinality(PresentIds))
        /\ HitIds \subseteq PresentIds
        /\ \A id \in PresentIds \ HitIds : \A i \in 1..Len(hits) :
              ~ScoreLess(hits[i].score, TrueScore(id))

\* k is smaller than the number of records: one is returned, one left out.
C6_Witness ==
    /\ Clean
    /\ result.kind = "return"
    /\ k >= 1
    /\ k < Cardinality(PresentIds)
    /\ \E id \in PresentIds \ HitIds : ScoreLess(TrueScore(id), hits[1].score)

\* C7. Ranking stability: hits of identical score are returned in the order
\* their records were upserted.
C7_TiesByInsertionOrder ==
    (Clean /\ result.kind = "return") =>
        \A i, j \in 1..Len(hits) :
            (i < j /\ hits[i].score = hits[j].score)
                => (Record(hits[i].id).timestamp < Record(hits[j].id).timestamp)

\* C8. Idempotence of read: a search with the query vector and k of the
\* search before it, with no write since that one began, ends as it did.
C8_RepeatedSearch ==
    (Clean /\ last.result.kind # "none" /\ last.queryVector = queryVector /\ last.k = k)
        => (result = last.result)

\* ------------------------------------------------------------------- query
\* The contexts queryKnowledge returned.
returnedContexts == kresult.value.contexts
\* queryKnowledge has ended, and its search had returned hits.
AnsweredFromHits == kpc = "done" /\ similarDocs # << >>

\* C9 (as amended). Per-hit degradation: a query whose search returned n >= 1
\* hits returns, whichever getDocument calls failed, exactly n contexts, and
\* the text of a context whose lookup failed is the hit's payload snippet, or
\* 'Content unavailable' when the payload has no snippet or an empty one.
C9_Degradation ==
    AnsweredFromHits =>
        /\ kresult.kind = "return"
        /\ Len(returnedContexts) = Len(similarDocs)
        /\ Len(fetched) = Len(similarDocs)
        /\ \A i \in 1..Len(similarDocs) :
              (fetched[i] = "failed") =>
                  returnedContexts[i].text =
                      (IF similarDocs[i].metadata.snippet \in { Undefined, << >> }
                       THEN << "Content unavailable" >>
                       ELSE similarDocs[i].metadata.snippet)

\* One lookup failed for a hit that has a snippet, another succeeded.
C9_Witness ==
    /\ AnsweredFromHits
    /\ kresult.kind = "return"
    /\ \E i, j \in 1..Len(similarDocs) :
         /\ fetched[i] = "failed"
         /\ similarDocs[i].metadata.snippet = Snippet
         /\ returnedContexts[i].text = Snippet
         /\ fetched[j] = "found"

\* C9 (as claimed). The text of every context whose lookup failed is the
\* hit's payload snippet.
C9_FailedTextIsSnippet ==
    AnsweredFromHits =>
        /\ kresult.kind = "return"
        /\ Len(returnedContexts) = Len(similarDocs)
        /\ \A i \in 1..Len(similarDocs) :
              (fetched[i] = "failed") =>
                  (returnedContexts[i].text = similarDocs[i].metadata.snippet)

\* C10. Context order: the contexts are in the order of the hits, context i
\* carrying the score of hit i, so in non-increasing score order, whichever
\* lookups failed.
C10_ContextOrder ==
    /\ Len(contexts) <= Len(similarDocs)
    /\ \A i \in 1..Len(contexts) : contexts[i].score = similarDocs[i].score
    /\ AnsweredFromHits =>
         /\ kresult.kind = "return"
         /\ Len(returnedContexts) = Len(similarDocs)
         /\ \A i \in 1..Len(similarDocs) :
              returnedContexts[i].score = similarDocs[i].score
         /\ \A i, j \in 1..Len(similarDocs) :
              (i < j) => ~ScoreLess(returnedContexts[i].score, returnedContexts[j].score)

\* Two contexts of different scores were returned, the lookup of the first
\* having failed and that of the second succeeded.
C10_Witness ==
    /\ AnsweredFromHits
    /\ kresult.kind = "return"
    /\ Len(returnedContexts) >= 2
    /\ ScoreLess(returnedContexts[2].score, returnedContexts[1].score)
    /\ fetched[1] = "failed"
    /\ fetched[2] = "found"

\* A step of queryKnowledge: its position changes.
KnowledgeStep == kpc' # kpc

\* C11. Empty-hits short-circuit: when the search has returned no hit, the
\* next step of queryKnowledge ends it with the fixed answer and no context,
\* as a normal result, and the only collaborator calls it has made by then
\* are createEmbedding and queryTopK: no getDocument, no generateAnswer.
C11_EmptyHits ==
    [][ (KnowledgeStep /\ kpc = "search" /\ pc = "done" /\ result = Returned(<< >>))
            => /\ kpc' = "done"
               /\ kresult'.kind = "return"
               /\ kresult'.value.answer =
                     << "No relevant documents found. Please ingest some documents first." >>
               /\ kresult'.value.contexts = << >>
               /\ calls' = << "createEmbedding", "queryTopK" >>
      ]_vars

\* A query has ended with the fixed answer after an embedding and a search.
C11_Witness ==
    /\ kpc = "done"
    /\ kresult.kind = "return"
    /\ kresult.value.contexts = << >>
    /\ calls = << "createEmbedding", "queryTopK" >>

\* The calls queryKnowledge makes over n hits, the last one outstanding: the
\* embedding, the search, then g lookups.
CallsUpTo(g) ==
    << "createEmbedding", "queryTopK" >> \o [i \in 1..g |-> "getDocument"]

\* C25. Sequential steps: queryKnowledge calls createEmbedding, then
\* queryTopK, then getDocument once per hit, the next only when the one
\* before has answered and its context is pushed, then generateAnswer once,
\* after the last lookup has answered; a step makes one call at most, so no
\* two are outstanding together.
C25_SequentialSteps ==
    /\ [][ \/ calls' = calls
           \/ calls' = << >>
           \/ /\ Len(calls') = Len(calls) + 1
              /\ SubSeq(calls', 1, Len(calls)) = calls
              /\ kpc' # kpc \/ Len(contexts') = Len(contexts) + 1
         ]_vars
    /\ [](/\ (kpc = "embed") => (calls = << "createEmbedding" >>)
          /\ (kpc = "search") => (calls = CallsUpTo(0))
          /\ (kpc = "docs") =>
                /\ Len(contexts) < Len(similarDocs)
                /\ calls = CallsUpTo(Len(contexts) + 1)
          /\ (kpc = "generate") =>
                /\ Len(contexts) = Len(similarDocs)
                /\ calls = CallsUpTo(Len(similarDocs)) \o << "generateAnswer" >>
          /\ (kpc = "done" /\ kresult.kind = "return" /\ kresult.value.contexts # << >>) =>
                /\ Len(kresult.value.contexts) = Len(similarDocs)
                /\ calls = CallsUpTo(Len(similarDocs)) \o << "generateAnswer" >>)

\* A query over two hits has returned: two lookups, then one generation.
C25_Witness ==
    /\ kpc = "done"
    /\ kresult.kind = "return"
    /\ Len(similarDocs) = 2
    /\ calls = << "createEmbedding", "queryTopK", "getDocument", "getDocument",
                  "generateAnswer" >>

\* ------------------------------------------------------------------ ingest
\* The request's pipeline has created its document: createEmbedding or
\* upsertVector has been called, or upsertVector has answered.
Created(r) == "createEmbedding" \in { ingests[r].calls[i] : i \in 1..Len(ingests[r].calls) }
\* ingestDocument has returned to the handler of the request.
Ingested(r) == ingests[r].pc = "responded" /\ ingests[r].result.kind = "return"
\* ingestDocument has thrown.
IngestThrown(r) == ingests[r].pc = "responded" /\ ingests[r].result.kind = "throw"

C13_Join ==
    /\ [][ \A r \in Requests :
             (ingests[r].pc = "upsert" /\ ingests'[r].result.kind = "return") =>
                LET id == ingests[r].sanityDoc._id IN
                /\ \A key \in DOMAIN store : (key # Key(id)) => (store'[key] = store[key])
                /\ store'[Key(id)] # Nil
                /\ JSONparse(store'[Key(id)]).vector = ingests[r].embedding
                /\ JSONparse(store'[Key(id)]).metadata =
                     [title |-> TitleOf(ingests[r].text),
                      source |-> ingests[r].source,
                      snippet |-> SnippetOf(ingests[r].text)]
         ]_vars
    /\ [](\A r \in Requests :
            Ingested(r) =>
               /\ ingests[r].calls = << "saveDocument", "createEmbedding", "upsertVector" >>
               /\ docs[ingests[r].sanityDoc._id] = ingests[r].sanityDoc
               /\ ingests[r].result.value.sanityId = ingests[r].sanityDoc._id
               /\ ingests[r].result.value.redisId = ingests[r].sanityDoc._id
               /\ ingests[r].response.status = 200
               /\ ingests[r].response.body.sanityId = ingests[r].sanityDoc._id
               /\ ingests[r].response.body.redisId = ingests[r].sanityDoc._id)

\* Two requests ingested: the second responds with the _id of its document,
\* 2, and the index holds a record under each _id.
C13_Witness ==
    /\ Ingested("a")
    /\ Ingested("b")
    /\ ingests["b"].response.body.sanityId = 2
    /\ ingests["b"].response.body.redisId = 2
    /\ PresentIds = { 1, 2 }
    /\ Record(2).metadata.title = << "Q" >>

AllSpace(str) == \A i \in 1..Len(str) : str[i] \in { " ", "\n", "\t" }

\* The handler has a text, and it is empty once trimmed.
BlankText(req) ==
    /\ req.mimetype \in { "none", "application/pdf", "text/plain" }
    /\ req.text \notin { Undefined, NotAString }
    /\ AllSpace(req.text)

\* C15 (as amended). EmptyContent guard: a request whose text is empty once
\* trimmed is answered 400 before any collaborator call, the dataset and the
\* index unchanged; the error is 'Empty content', or 'No file or text
\* provided' when the text is pasted and is the empty string.
C15_EmptyContent ==
    /\ [][ \A r \in Requests :
             (ingests[r].pc = "idle" /\ ingests'[r].pc # "idle" /\ BlankText(ingests'[r].request))
                => (store' = store /\ docs' = docs)
         ]_vars
    /\ [](\A r \in Requests :
            (ingests[r].pc # "idle" /\ BlankText(ingests[r].request)) =>
               /\ ingests[r].pc = "responded"
               /\ ingests[r].calls = << >>
               /\ ingests[r].response =
                    Rejected(400, IF ingests[r].request = [mimetype |-> "none", text |-> << >>]
                                  THEN << "No file or text provided" >>
                                  ELSE << "Empty content" >>))

\* A pasted text of white space was answered 'Empty content' while the index
\* holds a record.
C15_Witness ==
    /\ ingests["a"].pc = "responded"
    /\ ingests["a"].request = [mimetype |-> "none", text |-> << " ", "\n" >>]
    /\ ingests["a"].response = Rejected(400, << "Empty content" >>)
    /\ PresentIds # { }

\* C15 (as claimed). Every request whose text is empty once trimmed is
\* answered with the error 'Empty content', before any collaborator call.
C15_AlwaysEmptyContent ==
    \A r \in Requests :
        (ingests[r].pc # "idle" /\ BlankText(ingests[r].request)) =>
           /\ ingests[r].calls = << >>
           /\ ingests[r].response = Rejected(400, << "Empty content" >>)

\* ------------------------------------------------------------------ server
\* The q of the request is a string, empty or of white space only.
BlankQuery == qreq \notin { Undefined, NotAString } /\ AllSpace(qreq)

\* C16. InvalidQuery guard: a request whose q is blank is answered 400 and
\* queryKnowledge is not entered: no embedding, no search, no getDocument and
\* no generation; the step changes nothing but the response.
C16_InvalidQuery ==
    /\ [][ (qres' # qres /\ BlankQuery')
             => (<< store, docs, kpc, pc, calls >>' = << store, docs, kpc, pc, calls >>)
         ]_vars
    /\ [](BlankQuery =>
            /\ qres = Rejected(400, << "Query parameter \"q\" is required" >>)
            /\ kpc = "idle"
            /\ pc = "idle"
            /\ calls = << >>)

\* A q of white space was rejected while the index holds a record.
C16_Witness ==
    /\ qreq = << " ", "\t" >>
    /\ qres.status = 400
    /\ PresentIds # { }

\* --------------------------------------------------------- concurrent calls
\* The upsertVector calls whose SET has been executed.
AllWrites ==
    { pending[i] : i \in 1..Len(pending) } \cup { completed[i] : i \in 1..Len(completed) }
\* Two calls were in flight together: the SET of one was executed before the
\* other returned.
Concurrent(a, b) == a.timestamp \in b.during \/ b.timestamp \in a.during
\* No SET of the same id was executed after that of w.
LastWrite(w) == \A x \in AllWrites : (x.id = w.id) => (x.timestamp <= w.timestamp)
\* The index holds the record of w, whole.
Whole(w) ==
    /\ Present(w.id)
    /\ Record(w.id) = [vector |-> w.vector, metadata |-> w.metadata, timestamp |-> w.timestamp]

\* C17. Atomic visibility: whatever upserts (and deletes) interleave with a
\* search, every hit it has computed or returns for an id carries the score
\* of the vector and the payload of one and the same upsert of that id.
C17_AtomicVisibility ==
    LET OfOneWrite(hit) ==
            \E w \in AllWrites :
                /\ w.id = hit.id
                /\ hit.score = cosineSimilarity(queryVector, w.vector).value
                /\ hit.metadata = w.metadata
    IN  /\ \A i \in 1..Len(similarities) : OfOneWrite(similarities[i])
        /\ (pc = "done" /\ result.kind = "return") =>
              \A i \in 1..Len(hits) : OfOneWrite(hits[i])

\* A search returned a hit for an id whose record was replaced, by one of
\* another vector and another payload, while the search was scanning: the hit
\* is the later record.
C17_Witness ==
    /\ pc = "done"
    /\ result.kind = "return"
    /\ Cardinality(snapshots) >= 2
    /\ \E i \in 1..Len(hits) : \E a, b \in AllWrites :
          /\ a.id = hits[i].id
          /\ b.id = hits[i].id
          /\ a.timestamp < b.timestamp
          /\ a.vector # b.vector
          /\ hits[i].metadata = b.metadata
          /\ \E s \in snapshots : s[Key(a.id)] # Nil /\ JSONparse(s[Key(a.id)]).vector = a.vector

\* C18. Same-id write serialization: of two upsertVector calls for one id
\* that were in flight together, the one that returns later is the one whose
\* SET was executed later, and once both have returned the index holds its
\* record, whole (unless a later call wrote the id or deleted it).
C18_SameIdSerialization ==
    \A i, j \in 1..Len(completed) :
        (i < j /\ completed[i].id = completed[j].id /\ Concurrent(completed[i], completed[j])) =>
            /\ completed[i].timestamp < completed[j].timestamp
            /\ (LastWrite(completed[j]) /\ written[completed[j].id].present)
                  => Whole(completed[j])

\* Two calls for one id, of different records, in flight together, have both
\* returned.
C18_Witness ==
    /\ pending = << >>
    /\ \E i, j \in 1..Len(completed) :
          /\ i < j
          /\ completed[i].id = completed[j].id
          /\ completed[i].vector # completed[j].vector
          /\ Concurrent(completed[i], completed[j])
          /\ Whole(completed[j])

\* C19. Different-id concurrency: of two upsertVector calls for different
\* ids that were in flight together, once both have returned the index holds
\* the records of both, whole (unless a later call wrote or deleted one).
C19_DifferentIds ==
    \A i, j \in 1..Len(completed) :
        (/\ completed[i].id # completed[j].id
         /\ Concurrent(completed[i], completed[j])
         /\ LastWrite(completed[i]) /\ written[completed[i].id].present
         /\ LastWrite(completed[j]) /\ written[completed[j].id].present)
            => (Whole(completed[i]) /\ Whole(completed[j]))

\* Two calls for different ids, in flight together, have both returned.
C19_Witness ==
    /\ pending = << >>
    /\ \E i, j \in 1..Len(completed) :
          /\ completed[i].id # completed[j].id
          /\ Concurrent(completed[i], completed[j])
          /\ Whole(completed[i])
          /\ Whole(completed[j])

\* The hits of the records of a keyspace, fetched in the order ks.
ScoredIn(db, qv, ks) ==
    [i \in 1..Len(ks) |->
        [id |-> IdOfKey(ks[i]),
         score |-> cosineSimilarity(qv, JSONparse(db[ks[i]]).vector).value,
         metadata |-> JSONparse(db[ks[i]]).metadata]]

\* C20. Scan atomicity: the hits a search returns are the ranking of the
\* records of one keyspace that existed during the search.
C20_ScanAtomicity ==
    (pc = "done" /\ result.kind = "return") =>
        \E db \in snapshots : \E ks \in RedisKeys(db) :
            hits = TopK(ScoredIn(db, queryVector, ks), k)

\* ------------------------------------------------------------ vector index
\* C22. Delete: deleteVector of an id that has no record leaves the keyspace
\* as it is; deleteVector of an id that has one unsets its key and leaves
\* every other record as it is.  Neither ends in an error.
C22_Delete ==
    [][ \A id \in Ids :
          Deleted(id) =>
             /\ store'[Key(id)] = Nil
             /\ \A other \in Ids : (other # id) => (store'[Key(other)] = store[Key(other)])
             /\ (store[Key(id)] = Nil) => (store' = store)
             /\ result' = result
      ]_vars

\* A search is reading the one record the index has, of id 1, and
\* deleteVector was called since it began, for id 2.
C22_Witness ==
    /\ pc = "scan"
    /\ dirty
    /\ now = 1
    /\ keys = << Key(1) >>
    /\ Present(1)
    /\ ~Present(2)

\* C24. Record lifecycle: the record of an id changes only in a step that
\* executes the SET of an upsert of that id or the DEL of a delete of that id,
\* and only the latter removes it: it stays through upserts of other ids,
\* deletes of other ids and searches.  A search that returns, with no write
\* meanwhile and k at least the number of records, returns every record.
C24_RecordLifecycle ==
    /\ [][ \A id \in Ids :
             /\ (store[Key(id)] # Nil /\ store'[Key(id)] = Nil) => Deleted(id)
             /\ (store'[Key(id)] # store[Key(id)]) =>
                   \/ Deleted(id)
                   \/ /\ now' = now + 1
                      /\ store'[Key(id)] # Nil
                      /\ JSONparse(store'[Key(id)]).timestamp = now
                      /\ written'[id].present
         ]_vars
    /\ []((Clean /\ result.kind = "return" /\ k >= Cardinality(PresentIds)) =>
            (PresentIds = HitIds))

\* The record of id 1, written first, is still there after the upsert of id 2
\* and is returned, with the other, by a search with k = 3.
C24_Witness ==
    /\ Clean
    /\ result.kind = "return"
    /\ k = DefaultK
    /\ PresentIds = { 1, 2 }
    /\ Record(1).timestamp = 0
    /\ Record(2).timestamp = 1
    /\ HitIds = { 1, 2 }

\* C29. Search availability: a search of a non-empty index, with no write
\* meanwhile, k >= 1 and a query of the length of the first vector ever
\* inserted (the record written at time 0, while the index still holds it),
\* returns hits.
C29_SearchAvailability ==
    (/\ Clean
     /\ k >= 1
     /\ \E id \in PresentIds :
          /\ Record(id).timestamp = 0
          /\ Len(Record(id).vector) = Len(queryVector)) =>
        /\ result.kind = "return"
        /\ Len(hits) >= 1

\* A vector of magnitude zero: every component is 0.
ZeroVector(v) == \A i \in 1..Len(v) : v[i] = 0

\* C26. Zero-magnitude similarity: cosineSimilarity of two vectors of one
\* length returns exactly 0 when either has magnitude zero.
C26_ZeroMagnitude ==
    (/\ call.fn = "cosineSimilarity"
     /\ Len(call.args[1]) = Len(call.args[2])
     /\ ZeroVector(call.args[1]) \/ ZeroVector(call.args[2])) =>
        /\ call.result.kind = "return"
        /\ call.result.value = << 0, 1 >>

\* The similarity of the zero vector to a vector that is not, of the same
\* length, was computed.
C26_Witness ==
    /\ call.fn = "cosineSimilarity"
    /\ call.args[1] = << 0, 0 >>
    /\ call.args[2] = << -1, 1 >>
    /\ call.result.kind = "return"

\* ------------------------------------------------------------------- query
\* C27. Context text selection: when getDocument returns a document, the text
\* of the context is its contentSnippet if that is a non-empty string, else
\* the first 500 characters of its fullText if that is a non-empty string,
\* else 'No content'; the snippet of the payload is not consulted.
C27_ContextText ==
    (/\ call.fn = "context"
     /\ call.args[2].kind = "return"
     /\ call.args[2].value._id # 0) =>
        LET fullDoc == call.args[2].value
            text == call.result.value.text
        IN  IF fullDoc.contentSnippet # Undefined /\ fullDoc.contentSnippet # << >>
            THEN text = fullDoc.contentSnippet
            ELSE IF fullDoc.fullText # Undefined /\ fullDoc.fullText # << >>
            THEN /\ Len(text) = IF Len(fullDoc.fullText) < ContextMax THEN Len(fullDoc.fullText)
                                 ELSE ContextMax
                 /\ \A i \in 1..Len(text) : text[i] = fullDoc.fullText[i]
            ELSE text = << "No content" >>

\* The context of a hit whose payload has a snippet was built from a document
\* with an empty contentSnippet and a fullText of 501 characters: its first
\* 500.
C27_Witness ==
    /\ call.fn = "context"
    /\ call.args[2].kind = "return"
    /\ call.args[2].value._id # 0
    /\ call.args[2].value.contentSnippet = << >>
    /\ Len(call.args[2].value.fullText) = ContextMax + 1
    /\ call.args[1].metadata.snippet = Snippet
    /\ Len(call.result.value.text) = ContextMax

\* ------------------------------------------------------------------ ingest
\* The length of the first line of a text: the characters before its first
\* line feed.
FirstLineLength(text) ==
    IF \E i \in 1..Len(text) : text[i] = "\n"
    THEN (CHOOSE i \in 1..Len(text) :
             text[i] = "\n" /\ \A j \in 1..(i - 1) : text[j] # "\n") - 1
    ELSE Len(text)

\* C28. Title derivation: the title of a non-empty text is never empty; it
\* is 'Untitled' when the first line is empty, and otherwise the first line,
\* cut to its first 100 characters.
C28_TitleDerivation ==
    (call.fn = "title" /\ call.args[1] # << >>) =>
        LET text == call.args[1]
            n == FirstLineLength(text)
            made == call.result.value
        IN  /\ made # << >>
            /\ (made = << "Untitled" >>) <=> (n = 0)
            /\ (n > 0) =>
                  /\ Len(made) = IF n < TitleMax THEN n ELSE TitleMax
                  /\ \A i \in 1..Len(made) : made[i] = text[i]

\* The title of a text whose first line has 101 characters and is followed
\* by a second line: its first 100 characters.
C28_Witness ==
    /\ call.fn = "title"
    /\ FirstLineLength(call.args[1]) = TitleMax + 1
    /\ Len(call.args[1]) > TitleMax + 1
    /\ Len(call.result.value) = TitleMax

\* --------------------------------------------------------- lightningClient
\* C23. Provider fallback: createEmbedding and generateAnswer return, and
\* return the mock embedding of the text and the mock answer of the prompt
\* whenever the key is missing, the HTTP call fails, the response is not ok
\* or its body is not the well-formed one.
C23_ProviderFallback ==
    /\ (call.fn = "createEmbedding") =>
          /\ call.result.kind = "return"
          /\ (call.args[2].kind # "embedding") =>
                (call.result.value = generateMockEmbedding(call.args[1]))
    /\ (call.fn = "generateAnswer") =>
          /\ call.result.kind = "return"
          /\ (call.args[2].kind # "content") =>
                (call.result.value = generateMockAnswer(call.args[1]))

\* -------------------------------------------------------------- connection
\* C30. Single shared connection: whatever calls of upsertVector, queryTopK
\* and deleteVector interleave, one client at most is created and connected,
\* redisClient is that client, and every call awaits the connection of that
\* client or sends its command on it.
C30_SingleConnection ==
    /\ Len(clients) <= 1
    /\ (Len(clients) = 1) => (redisClient = 1 /\ clients[1].isOpen)
    /\ \A c \in Callers :
         /\ (callers[c].pc = "connect") => (callers[c].opened = redisClient)
         /\ (callers[c].pc = "command") => (callers[c].client = redisClient)

\* A call of upsertVector awaits the connection of the client it created,
\* and two calls begun meanwhile have their commands queued on that client.
C30_Witness ==
    /\ Len(clients) = 1
    /\ ~clients[1].isReady
    /\ callers[<< "upsertVector", "a" >>].pc = "connect"
    /\ callers[<< "queryTopK", "a" >>].pc = "command"
    /\ callers[<< "queryTopK", "a" >>].client = 1
    /\ callers[<< "deleteVector", "b" >>].pc = "command"
    /\ callers[<< "deleteVector", "b" >>].client = 1

====
